---- MODULE Spec2Model ----
(***************************************************************************)
(* NagarikMitra (src/App.tsx): the report list of the App component, its   *)
(* AsyncStorage persistence and the status / assignment handlers.          *)
(*                                                                         *)
(* Text that the code trims (the description and the department prompt) is *)
(* a sequence of one-character strings, so that trim() is computed.  A     *)
(* value that may be null (the form's location) is <<>> when null and      *)
(* <<v>> when present.  A report is a record; a member the object does not *)
(* have (status in reports written by the earlier version of the app) is   *)
(* absent from the record's domain.                                        *)
(*                                                                         *)
(* The mode toggle and the status filter (lines 79-80) only decide which   *)
(* buttons and rows are on screen; both can be set at any time, so every   *)
(* handler is taken to be reachable whenever its row or button exists.     *)
(***************************************************************************)
EXTENDS Integers, Sequences, FiniteSets, Bags, TLC

\* Bounds of the model.
MaxWrites == 2
MaxClock == 2
MaxDialogs == 1

VARIABLES
  reports,      \* useState([]): the in-memory list, line 77
  photoUri,     \* useState(null), line 74
  location,     \* useState(null), line 75
  description,  \* useState(''), line 76
  loading,      \* useState(false), line 78
  storage,      \* the AsyncStorage entry under REPORTS_KEY
  calls,        \* AsyncStorage calls issued and not yet settled, oldest first
  dialogs,      \* Alert dialogs with buttons, shown and not yet answered (a bag)
  hasPrompt,    \* whether Alert.prompt exists on this platform, line 228
  filter,       \* useState('All'), line 80
  issued,       \* how many setItem calls the run has issued (bounds the run)
  out           \* what the step just taken showed: Alert titles, console.warn

form == <<photoUri, location, description, loading>>
vars == <<reports, photoUri, location, description, loading, storage, calls,
          dialogs, hasPrompt, filter, issued, out>>

----------------------------------------------------------------------------
\* Values

Null == "null"
Unassigned == <<"U", "n", "a", "s", "s", "i", "g", "n", "e", "d">>
PublicWorks == <<"P", "u", "b", "l", "i", "c", " ", "W", "o", "r", "k", "s">>
SeedDescription ==
  <<"D", "e", "m", "o", ":", " ", "p", "o", "t", "h", "o", "l", "e", " ",
    "n", "e", "a", "r", " ", "m", "a", "i", "n", " ", "r", "o", "a", "d">>
SeedPhotoUri == "https://placehold.co/600x400/png"
\* Coordinates are in units of 1e-4 degree.
SeedLocation == [latitude |-> 236102, longitude |-> 852799]

\* The readings Date.now() can return during the run, in ms.  It is the wall
\* clock: two calls can read the same millisecond.
Times == 1..MaxClock

\* What the collaborators can hand to the form.
PickedUris == {"file:///p1.jpg"}
Positions == {[latitude |-> 10000, longitude |-> 20000]}
TypedTexts == {<<>>, <<" ">>, <<" ", "a">>}
PromptTexts == {<<>>, <<" ">>, <<" ", "R", " ">>}

order == <<"Reported", "Acknowledged", "In Progress", "Resolved">>

Min(a, b) == IF a < b THEN a ELSE b

\* String.prototype.trim on a sequence of characters.
Whitespace == {" ", "\t", "\n"}
RECURSIVE trimStart(_)
trimStart(s) ==
  IF s # <<>> /\ Head(s) \in Whitespace THEN trimStart(Tail(s)) ELSE s
RECURSIVE trimEnd(_)
trimEnd(s) ==
  IF s # <<>> /\ s[Len(s)] \in Whitespace
    THEN trimEnd(SubSeq(s, 1, Len(s) - 1)) ELSE s
trim(s) == trimEnd(trimStart(s))

\* Array.prototype.indexOf: zero-based, -1 when absent.
indexOf(arr, v) ==
  IF \E i \in DOMAIN arr : arr[i] = v
    THEN (CHOOSE i \in DOMAIN arr :
            arr[i] = v /\ \A j \in DOMAIN arr : arr[j] = v => i <= j) - 1
    ELSE -1

\* Date.now().toString() and new Date().toISOString() at clock reading t (ms).
DateNowString(t) == ToString(t)
toISOString(t) == "1970-01-01T00:00:00.00" \o ToString(t) \o "Z"

\* r.status, undefined when the object has no such member.
HasStatus(r) == "status" \in DOMAIN r
\* r.status read without the default.
statusUndefaulted(r) == IF HasStatus(r) THEN r.status ELSE "undefined"

\* r.status || 'Reported', lines 174 and 210
statusOrReported(r) ==
  IF HasStatus(r) /\ r.status # "" THEN r.status ELSE "Reported"

ids(list) == {list[i].id : i \in DOMAIN list}

----------------------------------------------------------------------------
\* The persisted entry: JSON.stringify / JSON.parse and AsyncStorage

\* getItem resolves to null when the key was never set.
Absent == [kind |-> "null"]
\* A stored string that is not JSON.
Corrupt == [kind |-> "text"]

\* The JSON values a report's members are written as.
jsonNull == [type |-> "null"]
jsonString(s) == [type |-> "string", chars |-> s]
\* A number written with one digit less than it has.
jsonNumberRounded(n) == [type |-> "number", value |-> (n \div 10) * 10]
jsonNumber(n) == [type |-> "number", value |-> n]
jsonObject(members) == [type |-> "object", members |-> members]

\* JSON.stringify of one member: null is written as null, the location
\* object as an object of two numbers, every other member as a string.
toJSON(k, v) ==
  IF k = "location"
    THEN IF v = <<>> THEN jsonNull
         ELSE jsonObject([m \in DOMAIN v[1] |-> jsonNumber(v[1][m])])
    ELSE jsonString(v)

\* JSON.parse of one member.
fromJSON(j) ==
  IF j.type = "null" THEN <<>>
  ELSE IF j.type = "object"
    THEN <<[m \in DOMAIN j.members |-> j.members[m].value]>>
  ELSE IF j.type = "number" THEN j.value
  ELSE j.chars

\* JSON.stringify of an array of objects: every member an object has is
\* written; a member it does not have is not.
stringify(list) ==
  [kind |-> "json",
   value |-> [i \in DOMAIN list |->
                [k \in DOMAIN list[i] |-> toJSON(k, list[i][k])]]]

\* The test left out: whatever getItem resolves to goes to JSON.parse.
truthyAlways(data) == TRUE

\* `if (data)`: null is falsy, a non-empty string is truthy.
truthy(data) == data.kind # "null"
\* JSON.parse throws on text that is not JSON.
parses(data) == data.kind = "json"
parse(data) ==
  [i \in DOMAIN data.value |->
     [k \in DOMAIN data.value[i] |-> fromJSON(data.value[i][k])]]

\* What the persisted entry holds as a list (absent: the empty list).
persistedList == IF parses(storage) THEN parse(storage) ELSE <<>>

\* A report written by an earlier run of the app, before this run's clock
\* readings, and left in the given status.
OldReport(status) ==
  [id |-> DateNowString(0), photoUri |-> "file:///p0.jpg",
   location |-> <<[latitude |-> 10000, longitude |-> 20000]>>,
   description |-> <<"a">>, createdAt |-> toISOString(0),
   status |-> status, department |-> Unassigned]

\* A report written by the earlier version of the app (lines 675-681), which
\* used the same key (line 599): it has no status and no department.
LegacyReport ==
  [id |-> DateNowString(0), photoUri |-> "file:///p0.jpg",
   location |-> <<[latitude |-> 10000, longitude |-> 20000]>>,
   description |-> <<"a">>, createdAt |-> toISOString(0)]

\* What the entry can hold when the app starts.
InitialStorage ==
  {Absent, Corrupt, stringify(<<>>), stringify(<<LegacyReport>>),
   stringify(<<OldReport("Acknowledged")>>),
   stringify(<<OldReport("Resolved")>>)}

\* Entries that this code did not write but can find under its key: a
\* report whose status is none of the four, one whose status is the empty
\* string, and one without the member.
ForeignStorage ==
  {stringify(<<OldReport("Closed")>>), stringify(<<OldReport("")>>),
   stringify(<<LegacyReport>>)}

getItem == [call |-> "getItem"]
\* `caller` is the handler awaiting the call; `before` is the in-memory list
\* at the moment the handler ran (history, read by no action).
setItem(value, caller, before) ==
  [call |-> "setItem", value |-> value, caller |-> caller, before |-> before]

----------------------------------------------------------------------------
\* Construction: the component mounts and the effect calls loadReports(),
\* which is suspended at `await AsyncStorage.getItem`.

Init ==
  /\ reports = <<>>
  /\ photoUri = Null
  /\ location = <<>>
  /\ description = <<>>
  /\ loading = FALSE
  /\ storage \in InitialStorage
  /\ calls = <<getItem>>
  /\ dialogs = EmptyBag
  /\ hasPrompt \in BOOLEAN
  /\ filter = "All"
  /\ issued = 0
  /\ out = {}

\* The same construction on an entry of ForeignStorage.
InitForeign ==
  /\ reports = <<>>
  /\ photoUri = Null
  /\ location = <<>>
  /\ description = <<>>
  /\ loading = FALSE
  /\ storage \in ForeignStorage
  /\ calls = <<getItem>>
  /\ dialogs = EmptyBag
  /\ hasPrompt = TRUE
  /\ filter = "All"
  /\ issued = 0
  /\ out = {}

\* loadReports after the getItem promise settles (lines 88-92).  `ok` is
\* whether the read succeeded.
loadReportsDone(ok) ==
  /\ calls # <<>>
  /\ Head(calls).call = "getItem"
  /\ calls' = Tail(calls)
  /\ reports' = IF ok /\ truthy(storage) /\ parses(storage)
                  THEN parse(storage) ELSE reports
  /\ out' = IF ~ok \/ (truthy(storage) /\ ~parses(storage))
              THEN {"warn: Failed to load reports"} ELSE {}
  /\ UNCHANGED <<form, storage, dialogs, hasPrompt, filter, issued>>

----------------------------------------------------------------------------
\* saveReports (lines 95-102)

\* Up to the await: setReports(newReports), then setItem is issued.
saveReports(newReports, caller) ==
  /\ issued < MaxWrites
  /\ issued' = issued + 1
  /\ reports' = newReports
  /\ calls' = Append(calls, setItem(stringify(newReports), caller, reports))

\* What the write leaves in the entry: the value when it succeeded.
written(call, ok) == IF ok THEN call.value ELSE storage

\* What saveReports shows when setItem has settled: the catch of line 100.
saveOutput(ok) == IF ok THEN {} ELSE {"warn: Failed to save reports"}

\* What handleSubmit shows once saveReports has returned (line 167).
submitOutput(ok) == {"alert: Submitted"}

\* The setItem promise settles.  saveReports then returns to its caller:
\* handleSubmit goes on to clear the form and show the notice (lines
\* 164-167), the other callers just end.
saveReportsDone(ok) ==
  /\ calls # <<>>
  /\ Head(calls).call = "setItem"
  /\ calls' = Tail(calls)
  /\ storage' = written(Head(calls), ok)
  /\ IF Head(calls).caller = "handleSubmit"
       THEN /\ photoUri' = Null
            /\ location' = <<>>
            /\ description' = <<>>
            /\ UNCHANGED loading
            /\ out' = saveOutput(ok) \cup submitOutput(ok)
       ELSE /\ UNCHANGED form
            /\ out' = saveOutput(ok)
  /\ UNCHANGED <<reports, dialogs, hasPrompt, filter, issued>>

----------------------------------------------------------------------------
\* The citizen form

\* launchImageLibrary / launchCamera call back (lines 105-113, 118-126).
imageResponses ==
  {[didCancel |-> TRUE, errorCode |-> FALSE, assets |-> <<>>],
   [didCancel |-> FALSE, errorCode |-> TRUE, assets |-> <<>>],
   [didCancel |-> FALSE, errorCode |-> FALSE, assets |-> <<>>],
   [didCancel |-> FALSE, errorCode |-> FALSE, assets |-> <<"">>]}
  \cup {[didCancel |-> FALSE, errorCode |-> FALSE, assets |-> <<u>>] :
          u \in PickedUris}

imageCallback(response) ==
  /\ IF ~response.didCancel /\ ~response.errorCode /\ Len(response.assets) > 0
       THEN photoUri' = IF response.assets[1] # "" THEN response.assets[1]
                        ELSE Null
       ELSE UNCHANGED photoUri
  /\ out' = IF ~response.didCancel /\ response.errorCode
              THEN {"alert: Error"} ELSE {}
  /\ UNCHANGED <<reports, location, description, loading, storage, calls,
                 dialogs, hasPrompt, filter, issued>>

handlePickImage(response) == imageCallback(response)
handleTakePhoto(response) == imageCallback(response)

\* Lines 130-131: the button is disabled while loading (line 276).
handleGetLocation ==
  /\ ~loading
  /\ loading' = TRUE
  /\ out' = {}
  /\ UNCHANGED <<reports, photoUri, location, description, storage, calls,
                 dialogs, hasPrompt, filter, issued>>

\* Lines 133-139.
positionSuccess(pos) ==
  /\ loading
  /\ location' = <<pos>>
  /\ loading' = FALSE
  /\ out' = {}
  /\ UNCHANGED <<reports, photoUri, description, storage, calls, dialogs,
                 hasPrompt, filter, issued>>

\* Lines 140-143.
positionError ==
  /\ loading
  /\ loading' = FALSE
  /\ out' = {"alert: Location Error"}
  /\ UNCHANGED <<reports, photoUri, location, description, storage, calls,
                 dialogs, hasPrompt, filter, issued>>

\* onChangeText={setDescription}, line 286
onChangeText(text) ==
  /\ description' = text
  /\ out' = {}
  /\ UNCHANGED <<reports, photoUri, location, loading, storage, calls,
                 dialogs, hasPrompt, filter, issued>>

\* The guard without the trim: `!description` in place of
\* `!description.trim()`.
incompleteUntrimmed(photo, loc, text) ==
  photo = Null \/ photo = "" \/ loc = <<>> \/ text = <<>>

\* The guard of line 149.
incomplete(photo, loc, text) ==
  photo = Null \/ photo = "" \/ loc = <<>> \/ trim(text) = <<>>

\* Lines 153-161.
newReport(t, photo, loc, text) ==
  [id |-> DateNowString(t), photoUri |-> photo, location |-> loc,
   description |-> text, createdAt |-> toISOString(t),
   status |-> "Reported", department |-> Unassigned]

\* [...reports, newReport]: the new report put last.
appended(report, list) == list \o <<report>>

\* [newReport, ...reports], lines 162 and 358
prepend(report, list) == <<report>> \o list

\* Lines 148-163, up to the await inside saveReports.
handleSubmit(t) ==
  IF incomplete(photoUri, location, description)
    THEN /\ out' = {"alert: Incomplete"}
         /\ UNCHANGED <<reports, form, storage, calls, dialogs,
                 hasPrompt, filter, issued>>
    ELSE /\ saveReports(
              prepend(newReport(t, photoUri, location, description),
                      reports),
              "handleSubmit")
         /\ out' = {}
         /\ UNCHANGED <<form, storage, dialogs, hasPrompt, filter>>

----------------------------------------------------------------------------
\* The admin actions on a report row

\* { ...r, status: next }, line 176
withStatus(r, status) ==
  [k \in DOMAIN r \cup {"status"} |-> IF k = "status" THEN status ELSE r[k]]

\* { ...r, department: dept }, line 184
withDepartment(r, dept) ==
  [k \in DOMAIN r \cup {"department"} |->
     IF k = "department" THEN dept ELSE r[k]]

\* The index taken modulo the length instead of clamped: Resolved wraps
\* round to Reported.
nextStatusWrapping(r) ==
  LET idx == indexOf(order, statusOrReported(r))
  IN  order[((idx + 1) % Len(order)) + 1]

\* Lines 174-175.
nextStatus(r) ==
  LET idx == indexOf(order, statusOrReported(r))
  IN  order[Min(idx + 1, Len(order) - 1) + 1]

\* The map of lines 172-179.
advanced(list, id) ==
  [i \in DOMAIN list |->
     IF list[i].id = id THEN withStatus(list[i], nextStatus(list[i]))
     ELSE list[i]]

\* The map of line 184.
assigned(list, id, dept) ==
  [i \in DOMAIN list |->
     IF list[i].id = id THEN withDepartment(list[i], dept) ELSE list[i]]

\* reports.filter((r) => r.id !== id), line 195
RECURSIVE without(_, _)
without(list, id) ==
  IF list = <<>> THEN <<>>
  ELSE IF Head(list).id = id THEN without(Tail(list), id)
  ELSE <<Head(list)>> \o without(Tail(list), id)

\* A dialog holds what its buttons' callbacks closed over: the row's id and
\* the `reports` of the render in which the button was pressed.  Alert.alert
\* returns at once and nothing in the code disables the other buttons while
\* a dialog is pending, so other handlers can run before it is answered.
dialog(kind, id, list) == [kind |-> kind, id |-> id, reports |-> list]

\* Lines 170-181: the Advance button of a row (line 221).
advanceStatus(id) ==
  /\ id \in ids(reports)
  /\ saveReports(advanced(reports, id), "advanceStatus")
  /\ out' = {}
  /\ UNCHANGED <<form, storage, dialogs, hasPrompt, filter>>

\* Lines 183-186 with the `reports` of the caller's render.
assignDept(list, id, dept) ==
  saveReports(assigned(list, id, dept), "assignDept")

\* The Assign button of a row, lines 226-236: a prompt where Alert.prompt
\* exists, otherwise 'Public Works' at once.
assignPress(id) ==
  /\ id \in ids(reports)
  /\ IF hasPrompt
       THEN /\ BagCardinality(dialogs) < MaxDialogs
            /\ dialogs' = dialogs (+) SetToBag({dialog("prompt", id, reports)})
            /\ out' = {}
            /\ UNCHANGED <<reports, calls, issued>>
       ELSE /\ assignDept(reports, id, PublicWorks)
            /\ out' = {"alert: Assigned"}
            /\ UNCHANGED dialogs
  /\ UNCHANGED <<form, storage, hasPrompt, filter>>

\* The prompt's callback, line 229.
promptSubmit(d, txt) ==
  /\ BagIn(d, dialogs)
  /\ d.kind = "prompt"
  /\ dialogs' = dialogs (-) SetToBag({d})
  /\ IF txt # <<>> /\ trim(txt) # <<>>
       THEN assignDept(d.reports, d.id, trim(txt))
       ELSE UNCHANGED <<reports, calls, issued>>
  /\ out' = {}
  /\ UNCHANGED <<form, storage, hasPrompt, filter>>

\* The Delete button without the confirmation: the list is filtered and
\* saved at the press.
deleteAtOnce(id) ==
  /\ id \in ids(reports)
  /\ saveReports(without(reports, id), "deleteReport")
  /\ out' = {}
  /\ UNCHANGED <<form, storage, dialogs, hasPrompt, filter>>

\* Lines 188-190, 199: the Delete button of a row shows the dialog.
deleteReport(id) ==
  /\ id \in ids(reports)
  /\ BagCardinality(dialogs) < MaxDialogs
  /\ dialogs' = dialogs (+) SetToBag({dialog("delete", id, reports)})
  /\ out' = {}
  /\ UNCHANGED <<reports, form, storage, calls, hasPrompt, filter, issued>>

\* Lines 194-197: the dialog's Delete button.
deleteConfirm(d) ==
  /\ BagIn(d, dialogs)
  /\ d.kind = "delete"
  /\ dialogs' = dialogs (-) SetToBag({d})
  /\ saveReports(without(d.reports, d.id), "deleteReport")
  /\ out' = {}
  /\ UNCHANGED <<form, storage, hasPrompt, filter>>

\* A dialog's Cancel button (lines 190, 369) or a dismissed prompt.
dialogCancel(d) ==
  /\ BagIn(d, dialogs)
  /\ dialogs' = dialogs (-) SetToBag({d})
  /\ out' = {}
  /\ UNCHANGED <<reports, form, storage, calls, hasPrompt, filter, issued>>

----------------------------------------------------------------------------
\* The floating buttons

\* Lines 349-357.
seed(t) ==
  [id |-> DateNowString(t), photoUri |-> SeedPhotoUri,
   location |-> <<SeedLocation>>, description |-> SeedDescription,
   createdAt |-> toISOString(t), status |-> "Reported",
   department |-> PublicWorks]

\* Lines 347-359.
seedPress(t) ==
  /\ saveReports(prepend(seed(t), reports), "seed")
  /\ out' = {}
  /\ UNCHANGED <<form, storage, dialogs, hasPrompt, filter>>

\* Lines 366-372: the dialog is shown.
clearPress ==
  /\ BagCardinality(dialogs) < MaxDialogs
  /\ dialogs' = dialogs (+) SetToBag({dialog("clear", "", <<>>)})
  /\ out' = {}
  /\ UNCHANGED <<reports, form, storage, calls, hasPrompt, filter, issued>>

\* Line 370: the dialog's Clear button.
clearConfirm(d) ==
  /\ BagIn(d, dialogs)
  /\ d.kind = "clear"
  /\ dialogs' = dialogs (-) SetToBag({d})
  /\ saveReports(<<>>, "clear")
  /\ out' = {}
  /\ UNCHANGED <<form, storage, hasPrompt, filter>>

----------------------------------------------------------------------------
\* The admin dashboard: the filter and the counts

\* The filter buttons, line 315.
Filters == <<"All", "Reported", "Acknowledged", "In Progress", "Resolved">>

\* The same test on the status shown in the row's chip (line 210).
matchesShown(r, f) == f = "All" \/ statusOrReported(r) = f

\* The predicate of line 202: `filter === 'All' ? true : r.status === filter`.
matches(r, f) == f = "All" \/ (HasStatus(r) /\ r.status = f)

\* Array.prototype.filter with that predicate.
RECURSIVE filtered(_, _)
filtered(list, f) ==
  IF list = <<>> THEN <<>>
  ELSE IF matches(Head(list), f) THEN <<Head(list)>> \o filtered(Tail(list), f)
  ELSE filtered(Tail(list), f)

\* Line 202: recomputed in every render from the two state values.
filteredReports == filtered(reports, filter)

\* The length of the list on screen.
totalShown == Len(filteredReports)

\* `reports.length`, lines 253 and 303.
total == Len(reports)

\* `reports.filter((r) => r.status === 'Resolved').length`, line 306.
resolved ==
  Len(SelectSeq(reports, LAMBDA r : HasStatus(r) /\ r.status = "Resolved"))

\* A filter button, line 316.
setFilter(f) ==
  /\ filter' = f
  /\ out' = {}
  /\ UNCHANGED <<reports, form, storage, calls, dialogs, hasPrompt, issued>>

----------------------------------------------------------------------------
\* The app is closed and started again

\* Lines 74-84 in a new process: the state is the initial state, the entry
\* is what the last run left, and loadReports is awaiting getItem.  A write
\* the old process had in flight has settled one way or the other.
mount ==
  /\ calls = <<>>
  /\ reports' = <<>>
  /\ photoUri' = Null
  /\ location' = <<>>
  /\ description' = <<>>
  /\ loading' = FALSE
  /\ filter' = "All"
  /\ dialogs' = EmptyBag
  /\ calls' = <<getItem>>
  /\ out' = {}
  /\ UNCHANGED <<storage, hasPrompt, issued>>

\* Ids a row or a dialog can carry.
Ids == {DateNowString(t) : t \in {0} \cup Times}

\* The settling of AsyncStorage calls.
Environment ==
  \/ \E ok \in BOOLEAN : loadReportsDone(ok)
  \/ \E ok \in BOOLEAN : saveReportsDone(ok)

\* The floating buttons of lines 344-376 and their dialog.
Fabs ==
  \/ \E t \in Times : seedPress(t)
  \/ clearPress
  \/ \E d \in BagToSet(dialogs) : clearConfirm(d)
  \/ \E d \in BagToSet(dialogs) : dialogCancel(d)

\* mode === 'citizen': the form of lines 258-293.
Citizen ==
  \/ \E response \in imageResponses : handlePickImage(response)
  \/ \E response \in imageResponses : handleTakePhoto(response)
  \/ handleGetLocation
  \/ \E pos \in Positions : positionSuccess(pos)
  \/ positionError
  \/ \E text \in TypedTexts : onChangeText(text)
  \/ \E t \in Times : handleSubmit(t)

\* mode === 'admin': the row buttons of lines 220-243.
Admin ==
  \/ \E id \in Ids : advanceStatus(id)
  \/ \E id \in Ids : assignPress(id)
  \/ \E d \in BagToSet(dialogs), txt \in PromptTexts : promptSubmit(d, txt)
  \/ \E id \in Ids : deleteReport(id)
  \/ \E d \in BagToSet(dialogs) : deleteConfirm(d)

\* The filter buttons of the dashboard.
Dashboard == \E i \in DOMAIN Filters : setFilter(Filters[i])

Next == Environment \/ Fabs \/ Citizen \/ Admin \/ Dashboard \/ mount
NextCitizen == Environment \/ Citizen
NextAdmin == Environment \/ Fabs \/ Admin
NextWorkflow ==
  \/ Environment
  \/ \E t \in Times : seedPress(t)
  \/ \E id \in Ids : advanceStatus(id)

NextDashboard ==
  \/ Environment
  \/ \E t \in Times : seedPress(t)
  \/ \E id \in Ids : advanceStatus(id)
  \/ Dashboard
NextRemoval ==
  \/ Environment
  \/ Fabs
  \/ \E id \in Ids : deleteReport(id)
  \/ \E d \in BagToSet(dialogs) : deleteConfirm(d)
NextRestart ==
  \/ Environment
  \/ Fabs
  \/ \E id \in Ids : advanceStatus(id)
  \/ mount

\* Alert.prompt is read by the Assign button alone: where that button is not
\* used, one platform stands for both.
InitOnePlatform == Init /\ hasPrompt = TRUE

Spec == Init /\ [][Next]_vars
\* A run in which only the citizen form is used, and one in which only the
\* admin buttons and the floating buttons are used (the form stays empty).
SpecCitizen == InitOnePlatform /\ [][NextCitizen]_vars
SpecAdmin == Init /\ [][NextAdmin]_vars
\* A run in which reports are only seeded and advanced.
SpecWorkflow == InitOnePlatform /\ [][NextWorkflow]_vars
\* The same with the dashboard's filter buttons in use.
SpecDashboard == InitOnePlatform /\ [][NextDashboard]_vars
\* A run of the floating buttons and the Delete button, with their dialogs.
SpecRemoval == InitOnePlatform /\ [][NextRemoval]_vars
\* Seeding and advancing on an entry that this code did not write.
SpecForeign == InitForeign /\ [][NextWorkflow]_vars
\* A run in which the app is closed and started again between the floating
\* buttons and the Advance button.
SpecRestart == InitOnePlatform /\ [][NextRestart]_vars

----------------------------------------------------------------------------
\* Properties

Statuses == {"Reported", "Acknowledged", "In Progress", "Resolved"}

\* The stage after a status in the workflow; Resolved is terminal.
Following(status) ==
  CASE status = "Reported" -> "Acknowledged"
    [] status = "Acknowledged" -> "In Progress"
    [] status = "In Progress" -> "Resolved"
    [] status = "Resolved" -> "Resolved"

\* The position of a status in Reported < Acknowledged < In Progress < Resolved.
Rank(status) ==
  CASE status = "Reported" -> 0
    [] status = "Acknowledged" -> 1
    [] status = "In Progress" -> 2
    [] status = "Resolved" -> 3

\* Empty once leading and trailing whitespace is gone: all whitespace.
Blank(text) == \A i \in DOMAIN text : text[i] \in {" ", "\t", "\n"}

\* The form holds a photo reference, a location and a non-blank description.
ValidInput ==
  photoUri \notin {Null, ""} /\ location # <<>> /\ ~Blank(description)

\* The call issued last, when there is one.
LastCall == calls[Len(calls)]

\* A write is outstanding.
WriteOutstanding == \E k \in DOMAIN calls : calls[k].call = "setItem"

\* The setItem at the head of the queue is rejected in this step.
WriteFails ==
  calls # <<>> /\ Head(calls).call = "setItem" /\ saveReportsDone(FALSE)

\* How often an id occurs in a list.
Occurrences(list, id) == Cardinality({i \in DOMAIN list : list[i].id = id})

\* C1: a submit with valid input yields exactly one new report followed by
\* the previous list, unchanged and in the same order; the new report has
\* status Reported and the department 'Unassigned'.
C1_SubmitPrepends ==
  [][\A t \in Times :
       (handleSubmit(t) /\ ValidInput) =>
         /\ Len(reports') = Len(reports) + 1
         /\ Tail(reports') = reports
         /\ Head(reports').status = "Reported"
         /\ Head(reports').department = Unassigned]_vars

\* A valid submit has just been made onto a list that was not empty.
C1_Witness ==
  /\ Len(reports) = 2
  /\ calls # <<>>
  /\ LastCall.call = "setItem"
  /\ LastCall.caller = "handleSubmit"
  /\ LastCall.before # <<>>
  /\ LastCall.value = stringify(reports)

\* C2: when the write of a mutating operation fails (and no other operation
\* has run since it started), the in-memory list is the list from before the
\* operation, and the persisted entry is unchanged.
C2_FailedWriteLeavesList ==
  [][(WriteFails /\ Len(calls) = 1) =>
       (reports' = Head(calls).before /\ storage' = storage)]_vars

\* C3: when the last outstanding write of a mutating operation settles, with
\* success or failure, the in-memory list is the persisted list.
C3_MemoryIsPersisted ==
  [][(calls # <<>> /\ Head(calls).call = "setItem" /\ calls' = <<>>) =>
       reports' = persistedList']_vars

\* C4: a mutation triggered while an earlier mutation's write is outstanding
\* computes its list from the list in memory at that moment, for each of
\* submit, seed, advanceStatus, assignDepartment, remove and clearAll.
C4_Serialized ==
  [][WriteOutstanding =>
       /\ \A t \in Times :
            (handleSubmit(t) /\ ValidInput) => Tail(reports') = reports
       /\ \A t \in Times : seedPress(t) => Tail(reports') = reports
       /\ \A id \in Ids :
            advanceStatus(id) => reports' = advanced(reports, id)
       /\ \A d \in BagToSet(dialogs), txt \in PromptTexts :
            (promptSubmit(d, txt) /\ ~Blank(txt)) =>
              reports' = assigned(reports, d.id, trim(txt))
       /\ \A d \in BagToSet(dialogs) :
            deleteConfirm(d) => reports' = without(reports, d.id)
       /\ \A d \in BagToSet(dialogs) :
            clearConfirm(d) => reports' = <<>>]_vars

\* C5: no two reports of the in-memory list have the same id.
C5_UniqueIds ==
  \A i, j \in DOMAIN reports : reports[i].id = reports[j].id => i = j

\* C6: a submit with the photo absent, the location absent or the
\* description blank shows the 'Incomplete' notice, leaves the in-memory list
\* and the persisted entry unchanged and issues no write.
C6_InvalidSubmitRejected ==
  [][\A t \in Times :
       (handleSubmit(t) /\ ~ValidInput) =>
         /\ "alert: Incomplete" \in out'
         /\ reports' = reports
         /\ storage' = storage
         /\ calls' = calls]_vars

\* A submit has just been refused for a description of whitespace alone.
C6_Witness ==
  /\ "alert: Incomplete" \in out
  /\ photoUri # Null
  /\ location # <<>>
  /\ description # <<>>

\* C7: advanceStatus moves every report of the given id that has one of the
\* four statuses to the following stage, Resolved staying Resolved, shows no
\* error and keeps the list's length.
C7_AdvanceOneStage ==
  [][\A id \in Ids :
       advanceStatus(id) =>
         /\ Len(reports') = Len(reports)
         /\ \A i \in DOMAIN reports :
              (reports[i].id = id /\ HasStatus(reports[i])
                 /\ reports[i].status \in Statuses) =>
                reports'[i].status = Following(reports[i].status)
         /\ out' = {}]_vars

\* A Resolved report has just been advanced and is still there, Resolved.
C7_Witness ==
  /\ calls # <<>>
  /\ LastCall.call = "setItem"
  /\ LastCall.caller = "advanceStatus"
  /\ LastCall.before = reports
  /\ \E i \in DOMAIN reports : reports[i].status = "Resolved"

\* C8: advanceStatus, assignDepartment and remove for an id that no report
\* of the in-memory list has report a failure and leave the list unchanged.
C8_UnknownIdFails ==
  [][/\ \A id \in Ids \ ids(reports) :
          advanceStatus(id) => (out' # {} /\ reports' = reports)
     /\ \A d \in BagToSet(dialogs), txt \in PromptTexts :
          (d.id \notin ids(reports) /\ promptSubmit(d, txt) /\ ~Blank(txt))
            => (out' # {} /\ reports' = reports)
     /\ \A d \in BagToSet(dialogs) :
          (d.id \notin ids(reports) /\ deleteConfirm(d))
            => (out' # {} /\ reports' = reports)]_vars

\* C9: after a failed write handleSubmit shows no success notice and does
\* not clear the form.
C9_FailureSurfaced ==
  [][(WriteFails /\ Head(calls).caller = "handleSubmit") =>
       /\ "alert: Submitted" \notin out'
       /\ photoUri' = photoUri
       /\ location' = location
       /\ description' = description]_vars

\* C10: in no step does the status of a report that stays in the list move
\* to an earlier stage or forward by more than one stage.
C10_StatusMonotone ==
  [][\A i \in DOMAIN reports, j \in DOMAIN reports' :
       (/\ reports[i].id = reports'[j].id
        /\ Occurrences(reports, reports[i].id) = 1
        /\ Occurrences(reports', reports[i].id) = 1
        /\ HasStatus(reports[i]) /\ reports[i].status \in Statuses
        /\ HasStatus(reports'[j]) /\ reports'[j].status \in Statuses) =>
         Rank(reports'[j].status) - Rank(reports[i].status) \in {0, 1}]_vars

\* C11: every report of the in-memory list has a status, and it is one of
\* Reported, Acknowledged, In Progress, Resolved, also after the initial load
\* of a list persisted earlier.
C11_StatusInEnum ==
  \A i \in DOMAIN reports :
    HasStatus(reports[i]) /\ reports[i].status \in Statuses

\* C12: an assignment whose department is blank reports a failure and leaves
\* the list unchanged; one whose department is not blank, for an id in the
\* list, leaves a report of that id with the trimmed department.
C12_AssignValidated ==
  [][\A d \in BagToSet(dialogs), txt \in PromptTexts :
       promptSubmit(d, txt) =>
         IF Blank(txt)
           THEN out' # {} /\ reports' = reports
           ELSE d.id \in ids(reports) =>
                  /\ d.id \in ids(reports')
                  /\ \A i \in DOMAIN reports' :
                       reports'[i].id = d.id =>
                         reports'[i].department = trim(txt)]_vars

\* The second list is the first with nothing changed but the given member of
\* the reports of the given id: same length, same order, same other members.
FrameExcept(old, new, id, member) ==
  /\ Len(new) = Len(old)
  /\ \A i \in DOMAIN old :
       IF old[i].id = id
         THEN \A k \in (DOMAIN old[i] \cup DOMAIN new[i]) \ {member} :
                k \in DOMAIN old[i] /\ k \in DOMAIN new[i]
                  /\ new[i][k] = old[i][k]
         ELSE new[i] = old[i]

\* C13: advanceStatus changes nothing but the status of the report of the
\* given id, and an assignment nothing but its department: the other
\* reports, the other members, the length and the order stay.
C13_Frame ==
  [][/\ \A id \in Ids :
          advanceStatus(id) => FrameExcept(reports, reports', id, "status")
     /\ \A id \in Ids :
          (assignPress(id) /\ ~hasPrompt) =>
            FrameExcept(reports, reports', id, "department")
     /\ \A d \in BagToSet(dialogs), txt \in PromptTexts :
          (promptSubmit(d, txt) /\ ~Blank(txt)) =>
            FrameExcept(reports, reports', d.id, "department")]_vars

\* C14: a list handed to the write is one the load gives back: what is
\* written parses, and parses to the list published with it, report by
\* report and member by member, in the same order (the empty list too); a
\* write that succeeds leaves exactly that text in the entry, and a load
\* that succeeds publishes what the entry's text parses to.
C14_RoundTrip ==
  [][/\ (Len(calls') = Len(calls) + 1
           /\ calls'[Len(calls')].call = "setItem") =>
          /\ truthy(calls'[Len(calls')].value)
          /\ parses(calls'[Len(calls')].value)
          /\ parse(calls'[Len(calls')].value) = reports'
     /\ (calls # <<>> /\ Head(calls).call = "setItem"
           /\ saveReportsDone(TRUE)) =>
          storage' = Head(calls).value
     /\ (loadReportsDone(TRUE) /\ parses(storage)) =>
          reports' = parse(storage)]_vars

\* The app was started again on the list [seed] that the run before had
\* saved, and has loaded it: the list in memory is the saved one although
\* the one write outstanding, issued on the empty list before the load
\* settled, carries another.
C14_Witness ==
  /\ Len(calls) = 1
  /\ Head(calls).call = "setItem"
  /\ Head(calls).before = <<>>
  /\ Head(calls).value # stringify(reports)
  /\ Len(reports) = 1
  /\ reports[1].id # DateNowString(0)
  /\ storage = stringify(reports)

\* C15: when the initial read fails, or the entry is absent, or its text
\* does not parse, loadReports leaves the in-memory list as it is (the empty
\* list, when no handler has published one meanwhile), shows no alert and
\* leaves the entry alone; an absent entry is not even logged.
C15_InitializeNeverFails ==
  [][\A ok \in BOOLEAN :
       (loadReportsDone(ok) /\ (~ok \/ storage \in {Absent, Corrupt})) =>
         /\ reports' = reports
         /\ (Len(calls) = 1 => reports' = <<>>)
         /\ out' \subseteq {"warn: Failed to load reports"}
         /\ ((ok /\ storage = Absent) => out' = {})
         /\ storage' = storage]_vars

\* The initial load has just failed and the list is empty.
C15_Witness ==
  /\ out = {"warn: Failed to load reports"}
  /\ calls = <<>>
  /\ reports = <<>>
  /\ issued = 0

\* C16: confirming the removal of an id that the list holds yields the list
\* with one report of that id taken out: one shorter, the other reports
\* unchanged and in the same order.
C16_RemoveExactlyOne ==
  [][\A d \in BagToSet(dialogs) :
       (deleteConfirm(d) /\ d.id \in ids(reports)) =>
         /\ Len(reports') = Len(reports) - 1
         /\ \E k \in DOMAIN reports :
              /\ reports[k].id = d.id
              /\ reports' = SubSeq(reports, 1, k - 1)
                              \o SubSeq(reports, k + 1, Len(reports))]_vars

\* C17: confirming Clear empties the in-memory list, whatever it held, and
\* once its write has settled with nothing else outstanding the in-memory
\* list and the persisted list are both empty.
C17_ClearLeavesEmpty ==
  [][/\ \A d \in BagToSet(dialogs) : clearConfirm(d) => reports' = <<>>
     /\ (/\ calls # <<>>
         /\ Head(calls).call = "setItem"
         /\ Head(calls).caller = "clear"
         /\ calls' = <<>>) =>
          (reports' = <<>> /\ persistedList' = <<>>)]_vars

\* The indices of the reports of a list that have the given status.
Having(list, status) ==
  {i \in DOMAIN list : HasStatus(list[i]) /\ list[i].status = status}

\* The first sequence is the second restricted to the given indices, in the
\* same order: it is as long as there are indices, and its n-th element is
\* the element at the n-th of them.
Restricts(sub, list, indices) ==
  /\ Len(sub) = Cardinality(indices)
  /\ \A i \in indices :
       sub[Cardinality({j \in indices : j <= i})] = list[i]

\* C18: whatever the filter, the list on screen under 'All' is the in-memory
\* list, and under a status it is the reports of that status in the list's
\* order; pressing a filter button changes neither the in-memory list nor
\* the persisted entry and issues no write.
C18_Filter ==
  [][/\ \A n \in DOMAIN Filters :
          setFilter(Filters[n]) =>
            /\ reports' = reports
            /\ storage' = storage
            /\ calls' = calls
     /\ filter' = "All" => filteredReports' = reports'
     /\ filter' \in Statuses =>
          Restricts(filteredReports', reports', Having(reports', filter'))
     /\ \A s \in Statuses :
          Restricts(filtered(reports', s), reports', Having(reports', s))]_vars

\* The filter is on Reported and the list holds a report that is Reported
\* and a report without a status: one report is on screen.
C18_Witness ==
  /\ filter = "Reported"
  /\ Len(reports) >= 2
  /\ Len(filteredReports) = 1
  /\ \E i \in DOMAIN reports : ~HasStatus(reports[i])

\* C19: the total shown is the length of the in-memory list and the
\* resolved count shown is the number of its reports whose status is
\* Resolved, whatever the filter.
C19_Counts ==
  /\ total = Len(reports)
  /\ resolved = Cardinality(Having(reports, "Resolved"))

\* A filter hides one of two reports, one of which is Resolved.
C19_Witness ==
  /\ Len(reports) = 2
  /\ Len(filteredReports) = 1
  /\ Cardinality(Having(reports, "Resolved")) = 1

\* C20: when the initial read settles while the write of a handler that ran
\* after it was started is outstanding, the list that the handler published
\* stays the in-memory list: the load's late result does not replace it.
C20_LoadDoesNotOverwrite ==
  [][\A ok \in BOOLEAN :
       (loadReportsDone(ok) /\ Len(calls) > 1) => reports' = reports]_vars

\* The write of a submission of exactly the inputs now in the form is
\* outstanding.
SubmissionOutstanding ==
  \E k \in DOMAIN calls :
    /\ calls[k].call = "setItem"
    /\ calls[k].caller = "handleSubmit"
    /\ LET submitted == Head(parse(calls[k].value))
       IN  /\ submitted.photoUri = photoUri
           /\ submitted.location = location
           /\ submitted.description = description

\* C21: when handleSubmit returns from saveReports the three inputs are
\* cleared, and a submit pressed while the write of a submission of the same
\* inputs is outstanding adds no report.
C21_OneReportPerInput ==
  [][/\ \A ok \in BOOLEAN :
          (calls # <<>> /\ Head(calls).call = "setItem"
             /\ Head(calls).caller = "handleSubmit" /\ saveReportsDone(ok)) =>
            (photoUri' = Null /\ location' = <<>> /\ description' = <<>>)
     /\ \A t \in Times :
          (handleSubmit(t) /\ SubmissionOutstanding) =>
            Len(reports') = Len(reports)]_vars

\* C22: advanceStatus leaves every report of the given id with one of the
\* four statuses, whatever status it had: Acknowledged when the status was
\* missing or empty, Reported when it was a value that is none of the four.
C22_AdvanceRepairsStatus ==
  [][\A id \in Ids :
       advanceStatus(id) =>
         \A i \in DOMAIN reports :
           reports[i].id = id =>
             /\ HasStatus(reports'[i])
             /\ reports'[i].status \in Statuses
             /\ (~HasStatus(reports[i]) \/ reports[i].status = "") =>
                  reports'[i].status = "Acknowledged"
             /\ (HasStatus(reports[i])
                   /\ reports[i].status \notin Statuses \cup {""}) =>
                  reports'[i].status = "Reported"]_vars

\* A report that was loaded with a status that is none of the four has just
\* been advanced and is Reported.
C22_Witness ==
  /\ calls # <<>>
  /\ LastCall.call = "setItem"
  /\ LastCall.caller = "advanceStatus"
  /\ Len(LastCall.before) = Len(reports)
  /\ \E i \in DOMAIN reports :
       /\ HasStatus(LastCall.before[i])
       /\ LastCall.before[i].status = "Closed"
       /\ reports[i].status = "Reported"

\* The step changes neither list and issues no write.
NothingWritten ==
  /\ reports' = reports
  /\ storage' = storage
  /\ calls' = calls
  /\ issued' = issued

\* C23: pressing Delete on a row, pressing the clear button, and choosing
\* Cancel in either dialog change neither the in-memory list nor the
\* persisted entry and issue no write.
C23_RequestChangesNothing ==
  [][/\ \A id \in Ids : deleteReport(id) => NothingWritten
     /\ clearPress => NothingWritten
     /\ \A d \in BagToSet(dialogs) :
          (d.kind \in {"delete", "clear"} /\ dialogCancel(d)) =>
            NothingWritten]_vars

\* A Delete confirmation is open on a list that still holds the report,
\* with no write outstanding.
C23_Witness ==
  /\ calls = <<>>
  /\ reports # <<>>
  /\ reports = persistedList
  /\ \E d \in BagToSet(dialogs) :
       d.kind = "delete" /\ d.id \in ids(reports)

====
